---- MODULE Spec2Model ----
(***************************************************************************)
(* Model of the publisher and its history ledger (src/discord_bot.py),     *)
(* driven by a single caller that awaits one post_content call at a time   *)
(* (the publishing loop of src/master_pipeline.py), with process restarts. *)
(*                                                                         *)
(* post_content is an async function: it is split at its await points      *)
(* (channel.send, the three message.add_reaction calls) and before the     *)
(* history write of _record_post, the points where an outcome is chosen by *)
(* the environment and where the process can be stopped.                   *)
(*                                                                         *)
(* Further specifications model the rest of the pipeline:                  *)
(*   SpecScore    MemeSelector.score_meme (src/ai_meme_selector.py) as a   *)
(*                function of what the image libraries and the CLIP        *)
(*                backend return;                                          *)
(*   SpecSelect   the scoring loop and the selection of run_cycle          *)
(*                (src/master_pipeline.py, lines 98-128);                  *)
(*   SpecPublish  the publishing loop of run_cycle (lines 130-168), which  *)
(*                drives the publisher actions above;                      *)
(*   SpecCycle    the whole of run_cycle, fetch loop included, repeated by *)
(*                the loop of start_bot_and_pipeline (SpecCycleFair: the   *)
(*                same with every awaited call returning);                 *)
(*   SpecStart    the start-up of start_bot_and_pipeline and of run_once   *)
(*                (src/run_once.py) up to the first run_cycle call, and    *)
(*                the finally clause of run_once after it;                 *)
(*   SpecCancel   the publishing loop with a stop signal;                  *)
(*   SpecScrape   a sequence of scrape_subreddit calls on one scraper       *)
(*                (src/imgur_scraper.py);                                  *)
(*   SpecNames    the file names the scrapers give to downloads and the    *)
(*                content ids the publisher derives from them;             *)
(*   SpecJson     get_reddit_json (src/reddit_meme_scraper_no_api.py), one *)
(*                request attempt per step.                                *)
(* Scores are reals in [0, 1] kept in thousandths (0.65 is 650).           *)
(***************************************************************************)
EXTENDS Integers, Sequences, FiniteSets, TLC

\* ---------------------------------------------------------------- bounds
MaxDirs == 2
MaxNames == 2
MaxCalls == 3
MaxInitLen == 1
MaxCap == 2
MaxItems == 3
MaxBudget == 2
MaxPosts == 2

\* ------------------------------------------------------------- constants
\* number of add_reaction awaits in post_content
NumReactions == 3

\* ------------------------------------------------------------ data model
\* a file path: a directory and a base name
Paths == [dir : 1..MaxDirs, name : 1..MaxNames]

\* the first 16 hex digits of the md5 digest of a base name (collisions ignored)
Md5Hex16(n) == <<"md5", n>>

\* DiscordPublisher._generate_content_id: md5 of Path(file_path).name, cut to 16
_generate_content_id(file_path) == Md5Hex16(file_path.name)

ContentIds == {Md5Hex16(n) : n \in 1..MaxNames}

\* a ledger entry as built by _record_post (file path, score, timestamp and
\* metadata are payload that no decision reads)
Entry(content_id) == [content_id |-> content_id]

\* the content ids of a list of entries, as the list comprehension of
\* is_already_posted builds it
IdsOf(posted) == {posted[i].content_id : i \in 1..Len(posted)}

NoDupIds(posted) ==
  \A i, j \in 1..Len(posted) : posted[i].content_id = posted[j].content_id => i = j

\* the in-memory ledger self.posted_history: whatever json.load returned.
\* ok = FALSE stands for a JSON value that has no usable "posted" list.
EmptyLedger == [ok |-> TRUE, posted |-> <<>>]
MalformedLedger == [ok |-> FALSE, posted |-> <<>>]

\* the history file: absent, a JSON document with a "posted" list, bytes that
\* are not JSON, a JSON document without a "posted" list, or a path that cannot
\* be opened
AbsentFile == [kind |-> "absent", posted |-> <<>>]
InvalidFile == [kind |-> "invalid", posted |-> <<>>]
NoPostedFile == [kind |-> "noposted", posted |-> <<>>]
UnreadableFile == [kind |-> "unreadable", posted |-> <<>>]

\* json.dump(self.posted_history, f): the document written for a ledger
JsonDump(ledger) ==
  IF ledger.ok THEN [kind |-> "json", posted |-> ledger.posted] ELSE NoPostedFile

\* json.load(f) on a file that opened; "JSONDecodeError" when it is not JSON
JsonLoad(file) ==
  IF file.kind = "json" THEN [error |-> "none", value |-> [ok |-> TRUE, posted |-> file.posted]]
  ELSE IF file.kind = "noposted" THEN [error |-> "none", value |-> MalformedLedger]
  ELSE [error |-> "JSONDecodeError", value |-> EmptyLedger]

\* DiscordPublisher._load_history.  raised = TRUE: the exception leaves
\* __init__ (only JSONDecodeError is caught).
_load_history(file) ==
  IF file.kind = "absent" THEN [raised |-> FALSE, value |-> EmptyLedger]
  ELSE IF file.kind = "unreadable" THEN [raised |-> TRUE, value |-> EmptyLedger]
  ELSE IF JsonLoad(file).error = "JSONDecodeError" THEN [raised |-> FALSE, value |-> EmptyLedger]
  ELSE [raised |-> FALSE, value |-> JsonLoad(file).value]

\* Python's s[-n:] for 0 <= n: the last n elements, but the whole list for n = 0
PySliceLast(s, n) ==
  IF n = 0 \/ n >= Len(s) THEN s ELSE SubSeq(s, Len(s) - n + 1, Len(s))

\* the outcomes of open(history_file, 'w') followed by json.dump
WriteOutcomes == {"ok", "open_fail", "write_fail"}

\* _save_history with the write error swallowed (logged, not raised)
_save_history_swallow(ledger, file, max_entries, w) ==
  LET trimmed == IF Len(ledger.posted) > max_entries
                 THEN [ledger EXCEPT !.posted = PySliceLast(ledger.posted, max_entries)]
                 ELSE ledger
  IN [posted_history |-> trimmed,
      history_file |-> IF w = "ok" THEN JsonDump(trimmed)
                       ELSE IF w = "write_fail" THEN InvalidFile
                       ELSE file,
      raised |-> FALSE]

\* _save_history whose error comes after the document reached the disk
_save_history_late_error(ledger, file, max_entries, w) ==
  LET trimmed == IF Len(ledger.posted) > max_entries
                 THEN [ledger EXCEPT !.posted = PySliceLast(ledger.posted, max_entries)]
                 ELSE ledger
  IN [posted_history |-> trimmed,
      history_file |-> JsonDump(trimmed),
      raised |-> w # "ok"]

\* DiscordPublisher._save_history: trim, then rewrite the file.
\* w = "open_fail": open raises, the file is untouched;
\* w = "write_fail": open truncated the file and the dump raised part-way.
_save_history(ledger, file, max_entries, w) ==
  LET trimmed == IF Len(ledger.posted) > max_entries
                 THEN [ledger EXCEPT !.posted = PySliceLast(ledger.posted, max_entries)]
                 ELSE ledger
  IN [posted_history |-> trimmed,
      history_file |-> IF w = "ok" THEN JsonDump(trimmed)
                       ELSE IF w = "write_fail" THEN InvalidFile
                       ELSE file,
      raised |-> w # "ok"]

\* DiscordPublisher._record_post: append the entry, then _save_history
_record_post(ledger, file, max_entries, content_id, w) ==
  _save_history([ledger EXCEPT !.posted = Append(ledger.posted, Entry(content_id))],
                file, max_entries, w)

\* is_already_posted that finds nothing
is_already_posted_never(ledger, content_id) == FALSE

\* is_already_posted that looks at the most recent entry only
is_already_posted_last_only(ledger, content_id) ==
  Len(ledger.posted) > 0 /\ ledger.posted[Len(ledger.posted)].content_id = content_id

\* DiscordPublisher.is_already_posted (ledger.ok; otherwise it raises)
is_already_posted(ledger, content_id) == content_id \in IdsOf(ledger.posted)

\* ----------------------------------------------------------------- state
VARIABLES
  config,          \* [enable_reactions, max_history_entries]
  history_file,    \* the history file on disk
  posted_history,  \* self.posted_history
  pc,              \* "down" | "idle" | "send" | "react" | "record"
  call,            \* the call in progress, or the last finished one
  pre,             \* ledger and file when that call began
  fresh,           \* no call has begun since the ledger was loaded
  calls,           \* number of post_content calls so far
  delivered,       \* content ids this process has delivered (channel.send returned)
  durable          \* content ids for which post_content returned True and that
                   \* the size cap has not trimmed from the ledger since

\* the pipeline (MasterPipeline and MemeSelector)
VARIABLES
  scoring,         \* one score_meme call: its input and what it computed
  ai_config,       \* [min_score, max_daily] as read by MasterPipeline.__init__
  phase,           \* position of run_cycle: "off" | "scoring" | "selecting" |
                   \* "selected" | "publishing" | "waiting" | "complete"
  all_content,     \* the fetched items, in fetch order
  results,         \* what the scoring call of each item processed so far did
  scored_content,  \* the list scored_content of run_cycle
  selected,        \* the list selected of run_cycle
  idx,             \* index of the loop in progress (1-based)
  posted,          \* the counter posted of run_cycle
  since_wait,      \* channel.send calls that returned since the last
                   \* asyncio.sleep of the cycle ended (or since the cycle began)
  attempted,       \* the posts for which the publishing loop of this cycle has
                   \* called caption_gen.generate, in call order
  fetched,         \* what the fetch of each source did in this cycle, in source order
  downloaded_ids,  \* self.downloaded_ids of the scraper
  startup,         \* the entry point, the discord configuration and the
                   \* position of the start-up code
  json_fetch       \* the get_reddit_json call in progress: its arguments, its
                   \* loop variables, the requests and sleeps made, its result

pipeline_vars == <<scoring, ai_config, phase, all_content, results,
                   scored_content, selected, idx, posted, since_wait,
                   attempted, fetched, downloaded_ids, startup, json_fetch>>

vars == <<config, history_file, posted_history, pc, call, pre, fresh, calls,
          delivered, durable, scoring, ai_config, phase, all_content, results,
          scored_content, selected, idx, posted, since_wait,
          attempted, fetched, downloaded_ids, startup, json_fetch>>

\* no score_meme call and no run_cycle in progress
NoScoring == [image |-> [pil_ok |-> FALSE,
                         clip |-> [error |-> TRUE, score |-> 0],
                         cv |-> [read |-> "none", later |-> "ok", width |-> 1,
                                 height |-> 1, laplacian_var |-> 0, color_std |-> 0]],
              done |-> FALSE, clip_score |-> -1, heuristic_score |-> -1, ret |-> -1]

\* MasterPipeline.__init__: the defaults of min_score_threshold and
\* max_daily_selections
DefaultAiConfig == [min_score |-> 650, max_daily |-> 10]

\* no entry point has run
NoStartup == [entry |-> "none", bot_token |-> "valid", channel_id |-> "valid",
              stage |-> "off", polls |-> 0, ready |-> FALSE,
              cycles |-> 0, closes |-> 0, cleanups |-> 0]

\* no get_reddit_json call has been made
NoJsonFetch == [sort_by |-> "hot", attempt |-> 0, retry_delay |-> 0, requests |-> 0,
                sleeps |-> <<>>, failures |-> <<>>, served |-> <<>>, state |-> "off",
                ret |-> <<>>]

\* nothing fetched or attempted yet, start-up not modelled
CycleFresh ==
  /\ attempted = <<>>
  /\ fetched = <<>>
  /\ downloaded_ids = {}
  /\ startup = NoStartup
  /\ json_fetch = NoJsonFetch

PipelineOff ==
  /\ CycleFresh
  /\ scoring = NoScoring
  /\ ai_config = DefaultAiConfig
  /\ phase = "off"
  /\ all_content = <<>>
  /\ results = <<>>
  /\ scored_content = <<>>
  /\ selected = <<>>
  /\ idx = 0
  /\ posted = 0
  /\ since_wait = 0

NoCall == [content_id |-> Md5Hex16(0), channel |-> "none", file_opened |-> FALSE,
           in_ledger |-> "unchecked", sends |-> 0, send_ok |-> FALSE,
           reactions |-> 0, write |-> "none", ret |-> "none", outcome |-> "none"]

Configs == [enable_reactions : BOOLEAN, max_history_entries : 0..MaxCap]

\* entry lists of length at most n
RECURSIVE EntryLists(_)
EntryLists(n) ==
  IF n = 0 THEN {<<>>}
  ELSE LET shorter == EntryLists(n - 1)
       IN shorter \cup {Append(s, Entry(c)) : s \in shorter, c \in ContentIds}

\* the history files a process can find: the four damaged kinds, and the
\* documents an earlier run wrote (no content id twice)
InitialFiles ==
  {AbsentFile, InvalidFile, NoPostedFile, UnreadableFile}
  \cup {[kind |-> "json", posted |-> s] : s \in {t \in EntryLists(MaxInitLen) : NoDupIds(t)}}

\* DiscordPublisher.__init__: the state right after construction
Init ==
  /\ config \in Configs
  /\ history_file \in InitialFiles
  /\ posted_history = _load_history(history_file).value
  /\ pc = IF _load_history(history_file).raised THEN "down" ELSE "idle"
  /\ call = NoCall
  /\ pre = [mem |-> posted_history, file |-> history_file]
  /\ fresh = TRUE
  /\ calls = 0
  /\ delivered = {}
  /\ durable = {}
  /\ PipelineOff

\* --------------------------------------------------------------- actions
ChannelOutcomes == {"found", "none", "raises"}
AwaitResults == {"ok", "Forbidden", "HTTPException", "Exception"}

\* post_content returns False from one of its except clauses or from the
\* channel check
Failed(c) == [c EXCEPT !.ret = "False", !.outcome = "Failed"]

\* post_content, lines 93-130, up to the await of channel.send:
\* channel lookup, duplicate check, embed and discord.File construction
PostBegin(file_path, channel, fileOk) ==
  LET content_id == _generate_content_id(file_path)
      c0 == [NoCall EXCEPT !.content_id = content_id, !.channel = channel]
      c1 == [c0 EXCEPT !.in_ledger =
               IF ~posted_history.ok THEN "error"
               ELSE IF is_already_posted(posted_history, content_id) THEN "yes" ELSE "no"]
  IN /\ pc = "idle"
     /\ calls < MaxCalls
     /\ calls' = calls + 1
     /\ fresh' = FALSE
     /\ pre' = [mem |-> posted_history, file |-> history_file]
     /\ IF channel = "raises" THEN
          \* int(self.discord_config["channel_id"]) raises: "except Exception"
          /\ call' = Failed(c0)
          /\ pc' = "idle"
        ELSE IF channel = "none" THEN
          /\ call' = Failed(c0)
          /\ pc' = "idle"
        ELSE IF c1.in_ledger = "error" THEN
          \* self.posted_history["posted"] raises: "except Exception"
          /\ call' = Failed(c1)
          /\ pc' = "idle"
        ELSE IF c1.in_ledger = "yes" THEN
          /\ call' = [c1 EXCEPT !.ret = "False", !.outcome = "AlreadyPosted"]
          /\ pc' = "idle"
        ELSE IF ~fileOk THEN
          \* discord.File(file_path) raises: "except Exception"
          /\ call' = Failed(c1)
          /\ pc' = "idle"
        ELSE
          /\ call' = [c1 EXCEPT !.file_opened = TRUE, !.sends = 1]
          /\ pc' = "send"
     /\ UNCHANGED <<config, history_file, posted_history, delivered, durable>>

\* the await of channel.send completes (lines 130-133)
SendDone(res) ==
  /\ pc = "send"
  /\ IF res # "ok" THEN
       /\ call' = Failed(call)
       /\ pc' = "idle"
       /\ UNCHANGED delivered
     ELSE
       /\ call' = [call EXCEPT !.send_ok = TRUE]
       /\ delivered' = delivered \cup {call.content_id}
       /\ pc' = IF config.enable_reactions THEN "react" ELSE "record"
  /\ UNCHANGED <<config, history_file, posted_history, pre, fresh, calls, durable>>

\* one await of message.add_reaction completes (lines 134-136)
ReactDone(res) ==
  /\ pc = "react"
  /\ IF res # "ok" THEN
       /\ call' = Failed(call)
       /\ pc' = "idle"
     ELSE
       /\ call' = [call EXCEPT !.reactions = @ + 1]
       /\ pc' = IF call.reactions + 1 < NumReactions THEN "react" ELSE "record"
  /\ UNCHANGED <<config, history_file, posted_history, pre, fresh, calls,
                 delivered, durable>>

\* lines 138-142 of post_content: _record_post, then return True; an exception
\* of _record_post is caught by "except Exception" and the call returns False
Record(w) ==
  LET r == _record_post(posted_history, history_file, config.max_history_entries,
                        call.content_id, w)
      dropped == (IdsOf(posted_history.posted) \cup {call.content_id})
                   \ IdsOf(r.posted_history.posted)
  IN /\ pc = "record"
     /\ posted_history' = r.posted_history
     /\ history_file' = r.history_file
     /\ call' = IF r.raised THEN Failed([call EXCEPT !.write = w])
                ELSE [call EXCEPT !.write = w, !.ret = "True", !.outcome = "Posted"]
     /\ durable' = (IF r.raised THEN durable ELSE durable \cup {call.content_id})
                     \ dropped
     /\ pc' = "idle"
     /\ UNCHANGED <<config, pre, fresh, calls, delivered>>

\* the process stops at any point and a new one is constructed:
\* DiscordPublisher.__init__ loads the ledger from the history file
Restart ==
  LET loaded == _load_history(history_file)
  IN /\ posted_history' = loaded.value
     /\ pc' = IF loaded.raised THEN "down" ELSE "idle"
     /\ fresh' = TRUE
     /\ call' = IF pc = "idle" THEN call ELSE NoCall
     /\ delivered' = {}
     /\ UNCHANGED <<config, history_file, pre, calls, durable>>

Next ==
  \/ \E p \in Paths, ch \in ChannelOutcomes, fileOk \in BOOLEAN :
       PostBegin(p, ch, fileOk) /\ UNCHANGED pipeline_vars
  \/ \E res \in AwaitResults : SendDone(res) /\ UNCHANGED pipeline_vars
  \/ \E res \in AwaitResults : ReactDone(res) /\ UNCHANGED pipeline_vars
  \/ \E w \in WriteOutcomes : Record(w) /\ UNCHANGED pipeline_vars
  \/ Restart /\ UNCHANGED pipeline_vars

Spec == Init /\ [][Next]_vars

\* ------------------------------------------------------------ properties
\* the call in `call` has returned
Finished == call.ret # "none"

\* the content id of the call was in the ledger when the call began
InLedgerAtStart == pre.mem.ok /\ call.content_id \in IdsOf(pre.mem.posted)

WriteFailed == call.write \in {"open_fail", "write_fail"}

\* C1: no content id is ever delivered to the channel more than once.  Stated
\* for one process lifetime, in which the ledger is never reloaded: no send
\* succeeds for a content id this process has already delivered.
C1_NoDoubleDelivery ==
  [][(pc = "send" /\ call'.send_ok) => call.content_id \notin delivered]_vars

\* C2: two post_content calls in a row for the same content id make exactly one
\* channel.send call, the second call being rejected as already posted.
\* Stated for a first call whose send went through, whatever happened to its
\* reactions and its record step: the next call for the same content id does
\* not get as far as a send call.
C2_TwiceOneSend ==
  [][(/\ pc = "idle" /\ ~fresh /\ call.send_ok
      /\ calls' = calls + 1
      /\ call'.content_id = call.content_id
      /\ call'.channel = "found")
     => call'.sends = 0]_vars

\* C3 as stated: a call makes exactly one send call when its content id is not
\* in the ledger, and none when it is.
C3_OneSendUnlessPosted ==
  Finished => call.sends = (IF InLedgerAtStart THEN 0 ELSE 1)

\* C3 amended: a call makes exactly one send call when it gets as far as the
\* send (channel resolved, ledger readable, content id not in the ledger,
\* attachment opened) and none otherwise, in particular none when the content
\* id is in the ledger.
C3_SendCount ==
  /\ call.sends = (IF /\ call.channel = "found" /\ pre.mem.ok
                      /\ ~InLedgerAtStart /\ call.file_opened
                   THEN 1 ELSE 0)
  /\ (call # NoCall /\ InLedgerAtStart) => call.sends = 0

C3_Witness ==
  /\ Finished /\ call.outcome = "AlreadyPosted" /\ call.sends = 0
  /\ call.content_id \in delivered

\* C4: post_content returns True only with the entry of its content id in the
\* in-memory ledger and in the history file, the file having been written.
C4_PostedImpliesRecorded ==
  call.ret = "True" =>
    /\ call.write = "ok"
    /\ posted_history.ok /\ call.content_id \in IdsOf(posted_history.posted)
    /\ history_file.kind = "json" /\ call.content_id \in IdsOf(history_file.posted)

C4_Witness ==
  /\ call.ret = "True" /\ ~fresh /\ pc = "idle"
  /\ call.content_id \in IdsOf(history_file.posted)
  /\ Len(posted_history.posted) >= 2

\* the process was restarted right after a call whose send succeeded and whose
\* history-file write failed
RestartedAfterFailedPersist ==
  fresh /\ pc = "idle" /\ call.send_ok /\ WriteFailed

C6_FailedLeavesLedger ==
  (~fresh /\ call.outcome = "Failed") =>
    (posted_history = pre.mem /\ history_file = pre.file)

Min(a, b) == IF a <= b THEN a ELSE b

\* C7: every record leaves at most max_history_entries entries, namely the
\* most recent ones of the ledger with the new entry appended.
C7_BoundedSuffix ==
  [][(pc = "record" /\ call'.write # "none") =>
       LET full == Append(posted_history.posted, Entry(call.content_id))
           cap == config.max_history_entries
           keep == Min(cap, Len(full))
       IN /\ Len(posted_history'.posted) <= cap
          /\ posted_history'.posted = SubSeq(full, Len(full) - keep + 1, Len(full))]_vars

\* C8: the ledger never holds two entries with one content id, and a call that
\* is past the duplicate check (on its way to record) is for an id not in it.
C8_UniqueIds ==
  /\ NoDupIds(posted_history.posted)
  /\ history_file.kind = "json" => NoDupIds(history_file.posted)
  /\ pc \in {"send", "react", "record"} =>
       call.content_id \notin IdsOf(posted_history.posted)

C8_Witness ==
  /\ Finished /\ call.outcome = "AlreadyPosted"
  /\ Len(posted_history.posted) >= 2
  /\ call.content_id \in durable

\* C9: after a restart the reloaded ledger holds every content id for which
\* post_content returned True, unless the size cap evicted it.
C9_SurvivesRestart ==
  (fresh /\ pc = "idle") =>
    \A c \in durable : posted_history.ok /\ c \in IdsOf(posted_history.posted)

\* C10: loading from a file that is not JSON, has no "posted" list or cannot be
\* opened raises nothing and yields the empty ledger.
C10_CorruptLoadsEmpty ==
  (fresh /\ history_file.kind \in {"invalid", "noposted", "unreadable"})
    => (pc # "down" /\ posted_history = EmptyLedger)

\* ============================================================= the scorer
\* src/ai_meme_selector.py.  A score is a real in [0, 1], in thousandths.
Max(a, b) == IF a >= b THEN a ELSE b

\* min(max(x, 0.0), 1.0)
Clamp01(x) == Min(Max(x, 0), 1000)

\* what the CLIP backend does for an image: it raises, or softmax
\* probabilities come back and quality / (quality + low_quality) is one of
\* these values
ClipValues == {0, 250, 500, 750, 1000}
ClipOutcomes ==
  {[error |-> TRUE, score |-> 0]} \cup {[error |-> FALSE, score |-> v] : v \in ClipValues}

\* what cv2 does for the file: imread returns None, imread raises, or imread
\* returns an array of the given shape, on which cvtColor / Laplacian / np.std
\* work (later = "ok") or raise (later = "raises")
CvWidths == {200, 400, 1280, 1920, 4000}
CvHeights == {100, 400, 720, 1080, 1440}
CvLaplacianVars == {99, 100, 500, 501}
CvColorStds == {19, 20, 50, 51}
CvNone == [read |-> "none", later |-> "ok", width |-> 1, height |-> 1,
           laplacian_var |-> 0, color_std |-> 0]
CvRaises == [read |-> "raises", later |-> "ok", width |-> 1, height |-> 1,
             laplacian_var |-> 0, color_std |-> 0]
CvOutcomes ==
  {CvNone, CvRaises}
  \cup [read : {"image"}, later : {"ok", "raises"}, width : CvWidths, height : CvHeights,
        laplacian_var : CvLaplacianVars, color_std : CvColorStds]

\* the file handed to score_meme: whether PIL opens and converts it, and
\* what the backend and cv2 do with it
Images == [pil_ok : BOOLEAN, clip : ClipOutcomes, cv : CvOutcomes]

\* _get_clip_score whose except clause returns 0.0
_get_clip_score_zero(clip) == IF clip.error THEN 0 ELSE clip.score

\* MemeSelector._get_clip_score: the normalised score, 0.5 when anything raises
_get_clip_score(clip) == IF clip.error THEN 500 ELSE clip.score

\* a heuristic whose resolution rule tests 1280 * 720 before 1920 * 1080
_get_heuristic_score_unordered(cv) ==
  IF cv.read = "raises" THEN 500
  ELSE IF cv.read = "none" THEN 300
  ELSE IF cv.later = "raises" THEN 500
  ELSE LET pixels == cv.height * cv.width
           resolution == IF pixels >= 1280 * 720 THEN 100
                         ELSE IF pixels >= 1920 * 1080 THEN 150
                         ELSE IF pixels < 400 * 400 THEN -200
                         ELSE 0
           aspect == IF 8 * cv.height <= 10 * cv.width /\ 10 * cv.width <= 15 * cv.height THEN 50
                     ELSE IF 2 * cv.width < cv.height \/ cv.width > 3 * cv.height THEN -100
                     ELSE 0
           sharpness == IF cv.laplacian_var > 500 THEN 100
                        ELSE IF cv.laplacian_var < 100 THEN -150
                        ELSE 0
           colour == IF cv.color_std > 50 THEN 50
                     ELSE IF cv.color_std < 20 THEN -100
                     ELSE 0
       IN Clamp01(500 + resolution + aspect + sharpness + colour)

\* MemeSelector._get_heuristic_score.  aspect = width / height is compared
\* by cross-multiplication (height > 0).
_get_heuristic_score(cv) ==
  IF cv.read = "raises" THEN 500
  ELSE IF cv.read = "none" THEN 300
  ELSE IF cv.later = "raises" THEN 500
  ELSE LET pixels == cv.height * cv.width
           resolution == IF pixels >= 1920 * 1080 THEN 150
                         ELSE IF pixels >= 1280 * 720 THEN 100
                         ELSE IF pixels < 400 * 400 THEN -200
                         ELSE 0
           aspect == IF 8 * cv.height <= 10 * cv.width /\ 10 * cv.width <= 15 * cv.height THEN 50
                     ELSE IF 2 * cv.width < cv.height \/ cv.width > 3 * cv.height THEN -100
                     ELSE 0
           sharpness == IF cv.laplacian_var > 500 THEN 100
                        ELSE IF cv.laplacian_var < 100 THEN -150
                        ELSE 0
           colour == IF cv.color_std > 50 THEN 50
                     ELSE IF cv.color_std < 20 THEN -100
                     ELSE 0
       IN Clamp01(500 + resolution + aspect + sharpness + colour)

\* score_meme whose except clause returns the sentinel -1.0
score_meme_sentinel(image) ==
  IF ~image.pil_ok THEN [clip_score |-> -1, heuristic_score |-> -1, ret |-> -1000]
  ELSE LET clip_score == _get_clip_score(image.clip)
           heuristic_score == _get_heuristic_score(image.cv)
           final_score == (clip_score * 6 + heuristic_score * 4) \div 10
       IN [clip_score |-> clip_score, heuristic_score |-> heuristic_score,
           ret |-> Clamp01(final_score)]

\* MemeSelector.score_meme: the two sub-scores (-1: not computed) and the
\* returned value.  Image.open(...).convert raising is the one exception that
\* reaches the except clause (both sub-score methods catch their own).
score_meme(image) ==
  IF ~image.pil_ok THEN [clip_score |-> -1, heuristic_score |-> -1, ret |-> 0]
  ELSE LET clip_score == _get_clip_score(image.clip)
           heuristic_score == _get_heuristic_score(image.cv)
           final_score == (clip_score * 6 + heuristic_score * 4) \div 10
       IN [clip_score |-> clip_score, heuristic_score |-> heuristic_score,
           ret |-> Clamp01(final_score)]

\* the publisher as constructed on an absent history file, making no call
PublisherIdle ==
  /\ config = [enable_reactions |-> TRUE, max_history_entries |-> MaxCap]
  /\ history_file = AbsentFile
  /\ posted_history = _load_history(AbsentFile).value
  /\ pc = "idle"
  /\ call = NoCall
  /\ pre = [mem |-> posted_history, file |-> history_file]
  /\ fresh = TRUE
  /\ calls = 0
  /\ delivered = {}
  /\ durable = {}

\* a score_meme call is about to run on some file
InitScore ==
  /\ PublisherIdle
  /\ scoring \in {[NoScoring EXCEPT !.image = im] : im \in Images}
  /\ ai_config = DefaultAiConfig
  /\ phase = "off"
  /\ all_content = <<>>
  /\ results = <<>>
  /\ scored_content = <<>>
  /\ selected = <<>>
  /\ idx = 0
  /\ posted = 0
  /\ since_wait = 0
  /\ CycleFresh

\* the call runs (score_meme is synchronous: one step)
ScoreMeme ==
  LET r == score_meme(scoring.image)
  IN /\ ~scoring.done
     /\ scoring' = [scoring EXCEPT !.done = TRUE, !.clip_score = r.clip_score,
                                   !.heuristic_score = r.heuristic_score, !.ret = r.ret]
     /\ UNCHANGED <<config, history_file, posted_history, pc, call, pre, fresh, calls,
                    delivered, durable, ai_config, phase, all_content, results,
                    scored_content, selected, idx, posted, since_wait>>
     /\ UNCHANGED <<attempted, fetched, downloaded_ids, startup, json_fetch>>

NextScore == ScoreMeme

SpecScore == InitScore /\ [][NextScore]_vars

\* C16: whatever the backend and the image libraries do, score_meme returns
\* a value between 0.0 and 1.0
C16_ScoreInUnitInterval ==
  scoring.done => (scoring.ret >= 0 /\ scoring.ret <= 1000)

\* a decoded image whose heuristic sum falls below 0.0 and is clamped, with a
\* semantic score of 0.0: the final score sits on the lower end of the interval
C16_Witness ==
  /\ scoring.done /\ scoring.image.pil_ok /\ ~scoring.image.clip.error
  /\ scoring.image.cv.read = "image" /\ scoring.image.cv.later = "ok"
  /\ scoring.image.cv.width = 400 /\ scoring.image.cv.height = 100
  /\ scoring.image.cv.laplacian_var = 99 /\ scoring.image.cv.color_std = 19
  /\ scoring.heuristic_score = 0 /\ scoring.clip_score = 0 /\ scoring.ret = 0

\* the image cannot be decoded by cv2: imread returns None, imread raises, or
\* an operation on the array raises
CvUndecodable(cv) == cv.read \in {"none", "raises"} \/ cv.later = "raises"

\* C17: whenever the heuristic sub-score is computed for an image that cannot
\* be decoded, whichever way the decode fails, it is exactly 0.3
C17_UndecodableHeuristic ==
  (scoring.done /\ scoring.heuristic_score # -1 /\ CvUndecodable(scoring.image.cv))
    => scoring.heuristic_score = 300

\* C19: when the backend raises on an image that PIL decodes, the semantic
\* sub-score is 0.5 and score_meme returns 0.6 * 0.5 + 0.4 * heuristic, which
\* is not the failure score 0.0
C19_BackendErrorDefaults ==
  (scoring.done /\ scoring.image.pil_ok /\ scoring.image.clip.error)
    => /\ scoring.clip_score = 500
       /\ scoring.heuristic_score >= 0
       /\ 10 * scoring.ret = 3000 + 4 * scoring.heuristic_score
       /\ scoring.ret # 0

\* the backend raises on a sharp, colourful full-HD image: 0.3 + 0.4 * 0.8
C19_Witness ==
  /\ scoring.done /\ scoring.image.pil_ok /\ scoring.image.clip.error
  /\ scoring.image.cv.read = "image" /\ scoring.image.cv.later = "ok"
  /\ scoring.heuristic_score = 800 /\ scoring.ret = 620

\* ============================================ scoring loop and selection
\* src/master_pipeline.py, run_cycle, lines 98-128.

\* configured values of min_score_threshold and max_daily_selections
Thresholds == {0, 650, 700}
Budgets == -1..MaxBudget

\* four files and what score_meme makes of them
\* PIL cannot open the file: 0.0
BrokenImage == [pil_ok |-> FALSE, clip |-> [error |-> TRUE, score |-> 0], cv |-> CvNone]
\* the backend raises and cv2 reads nothing: 0.6 * 0.5 + 0.4 * 0.3 = 0.42
BackendDownImage == [pil_ok |-> TRUE, clip |-> [error |-> TRUE, score |-> 0], cv |-> CvNone]
\* 0.6 * 0.75 + 0.4 * 0.5 = 0.65
DecentImage ==
  [pil_ok |-> TRUE, clip |-> [error |-> FALSE, score |-> 750],
   cv |-> [read |-> "image", later |-> "ok", width |-> 1280, height |-> 720,
           laplacian_var |-> 99, color_std |-> 51]]
\* 0.6 * 1.0 + 0.4 * 0.8 = 0.92
ViralImage ==
  [pil_ok |-> TRUE, clip |-> [error |-> FALSE, score |-> 1000],
   cv |-> [read |-> "image", later |-> "ok", width |-> 1920, height |-> 1080,
           laplacian_var |-> 501, color_std |-> 51]]
CycleImages == {BrokenImage, BackendDownImage, DecentImage, ViralImage}

\* an item of all_content: a downloaded post and the file at item["local_path"];
\* ai_score is -1 until run_cycle sets item["ai_score"]
Item(post, image) == [post |-> post, image |-> image, ai_score |-> -1]

\* item["local_path"]: download_folder / imgur_<post id><ext>
ItemPath(item) == [dir |-> 1, name |-> item.post]

\* the fetched lists of 1..n items; the scraper never returns a post twice,
\* so the posts are numbered in fetch order
RECURSIVE ContentLists(_)
ContentLists(n) ==
  IF n = 0 THEN {}
  ELSE LET shorter == ContentLists(n - 1)
       IN shorter
          \cup {<<Item(1, im)>> : im \in CycleImages}
          \cup {Append(c, Item(Len(c) + 1, im)) : c \in shorter, im \in CycleImages}

\* the comparison with a strict >
MeetsThreshold_strict(score, min_score) == score > min_score

\* the comparison turned round
MeetsThreshold_inverted(score, min_score) == score <= min_score

\* no comparison: every scored item is kept
MeetsThreshold_any(score, min_score) == TRUE

\* run_cycle, line 111: score >= self.min_score
MeetsThreshold(score, min_score) == score >= min_score

\* a descending sort that puts equal scores in reverse fetch order
\* (an ascending sort followed by a reversal)
SortDesc_ties_reversed(s) ==
  LET rank(i) == 1 + Cardinality({j \in 1..Len(s) : s[j].ai_score > s[i].ai_score})
                   + Cardinality({j \in 1..Len(s) : j > i /\ s[j].ai_score = s[i].ai_score})
  IN [p \in 1..Len(s) |-> s[CHOOSE i \in 1..Len(s) : rank(i) = p]]

\* list.sort(key=lambda x: x["ai_score"], reverse=True): Python's sort is
\* stable and reverse=True keeps the original order of equal keys, so an
\* element lands after every larger one and after the equal ones before it
SortDesc(s) ==
  LET rank(i) == 1 + Cardinality({j \in 1..Len(s) : s[j].ai_score > s[i].ai_score})
                   + Cardinality({j \in 1..Len(s) : j < i /\ s[j].ai_score = s[i].ai_score})
  IN [p \in 1..Len(s) |-> s[CHOOSE i \in 1..Len(s) : rank(i) = p]]

\* Python's s[:n]: the first n elements, and for n < 0 all but the last -n
PySliceFirst(s, n) ==
  IF n >= 0 THEN SubSeq(s, 1, Min(n, Len(s)))
  ELSE SubSeq(s, 1, Max(Len(s) + n, 0))

\* what one scoring call of the loop did: the executor call raised, or
\* score_meme returned score
ScoreResult(raised, score) == [raised |-> raised, score |-> IF raised THEN -1 ELSE score]

\* run_cycle, lines 102-122, as a function of the fetched items, of what
\* the scoring calls did, and of the two configured values
RunSelection(content, res, min_score, max_daily) ==
  LET scored == [i \in 1..Len(res) |->
                   [item |-> [content[i] EXCEPT !.ai_score = res[i].score],
                    raised |-> res[i].raised]]
      kept == SelectSeq(scored, LAMBDA e : ~e.raised /\ MeetsThreshold(e.item.ai_score, min_score))
  IN PySliceFirst(SortDesc([i \in 1..Len(kept) |-> kept[i].item]), max_daily)

\* the history files of a pipeline run: none yet, or the document an earlier
\* run wrote after one post
PipelineFiles ==
  {AbsentFile} \cup {[kind |-> "json", posted |-> <<Entry(c)>>] : c \in ContentIds}

\* run_cycle has fetched a non-empty all_content and enters the scoring loop;
\* the publisher was constructed on the history file it found
InitSelect ==
  /\ config = [enable_reactions |-> TRUE, max_history_entries |-> MaxCap]
  /\ history_file \in PipelineFiles
  /\ posted_history = _load_history(history_file).value
  /\ pc = "idle"
  /\ call = NoCall
  /\ pre = [mem |-> posted_history, file |-> history_file]
  /\ fresh = TRUE
  /\ calls = 0
  /\ delivered = {}
  /\ durable = {}
  /\ scoring = NoScoring
  /\ ai_config \in [min_score : Thresholds, max_daily : Budgets]
  /\ phase = "scoring"
  /\ all_content \in ContentLists(MaxItems)
  /\ results = <<>>
  /\ scored_content = <<>>
  /\ selected = <<>>
  /\ idx = 1
  /\ posted = 0
  /\ since_wait = 0
  /\ CycleFresh

\* one iteration of the scoring loop, lines 102-118: the executor call
\* raises (the item is skipped) or score_meme returns
ScoreItem(raises) ==
  LET item == all_content[idx]
      score == score_meme(item.image).ret
  IN /\ phase = "scoring"
     /\ idx <= Len(all_content)
     /\ results' = Append(results, ScoreResult(raises, score))
     /\ scored_content' =
          IF ~raises /\ MeetsThreshold(score, ai_config.min_score)
          THEN Append(scored_content, [item EXCEPT !.ai_score = score])
          ELSE scored_content
     /\ idx' = idx + 1
     /\ phase' = IF idx = Len(all_content) THEN "selecting" ELSE "scoring"
     /\ UNCHANGED <<config, history_file, posted_history, pc, call, pre, fresh, calls,
                    delivered, durable, scoring, ai_config, all_content, selected,
                    posted, since_wait>>
     /\ UNCHANGED <<attempted, fetched, downloaded_ids, startup, json_fetch>>

\* a selection that enters its first item in the ledger when it selects it
Select_reserving ==
  /\ phase = "selecting"
  /\ scored_content' = SortDesc(scored_content)
  /\ selected' = PySliceFirst(scored_content', ai_config.max_daily)
  /\ phase' = IF selected' = <<>> THEN "complete" ELSE "publishing"
  /\ idx' = 1
  /\ posted' = 0
  /\ posted_history' =
       IF selected' = <<>> THEN posted_history
       ELSE [posted_history EXCEPT !.posted =
               Append(@, Entry(_generate_content_id(ItemPath(selected'[1]))))]
  /\ UNCHANGED <<config, history_file, pc, call, pre, fresh, calls,
                 delivered, durable, scoring, ai_config, all_content, results, since_wait>>
  /\ UNCHANGED <<attempted, fetched, downloaded_ids, startup, json_fetch>>

\* lines 120-131: sort in place, slice, return when nothing is selected,
\* otherwise enter the publishing loop
Select ==
  /\ phase = "selecting"
  /\ scored_content' = SortDesc(scored_content)
  /\ selected' = PySliceFirst(scored_content', ai_config.max_daily)
  /\ phase' = IF selected' = <<>> THEN "complete" ELSE "publishing"
  /\ idx' = 1
  /\ posted' = 0
  /\ UNCHANGED <<config, history_file, posted_history, pc, call, pre, fresh, calls,
                 delivered, durable, scoring, ai_config, all_content, results, since_wait>>
  /\ UNCHANGED <<attempted, fetched, downloaded_ids, startup, json_fetch>>

NextSelect ==
  \/ \E raises \in BOOLEAN : ScoreItem(raises)
  \/ Select

SpecSelect == InitSelect /\ [][NextSelect]_vars

\* the selection of the cycle has been made
SelectionDone == phase \in {"publishing", "waiting", "complete"}

\* the posts of a list of items
PostsOf(items) == {items[i].post : i \in 1..Len(items)}

\* the item is recorded in the ledger
InLedger(item) ==
  posted_history.ok /\ _generate_content_id(ItemPath(item)) \in IdsOf(posted_history.posted)

\* C11: the selected list never contains an item whose content id is in the
\* ledger at selection time, even when its score is at or above the threshold
\* (stated for thresholds above 0.0, which a failed scoring never reaches)
C11_NoLedgeredItemSelected ==
  (SelectionDone /\ ai_config.min_score > 0)
    => \A i \in 1..Len(selected) : ~InLedger(selected[i])

\* C12: the number of selected items is at most max_daily_selections, for
\* every configured integer (a budget below zero allows no item, the least a
\* selection can return)
C12_WithinBudget ==
  SelectionDone => Len(selected) <= Max(ai_config.max_daily, 0)

\* the fetched item at position p got a score at or above the threshold
Qualifies(p) == ~results[p].raised /\ results[p].score >= ai_config.min_score

\* C13: with no fetched item in the ledger and a budget that is a count, the
\* selected list is the reference result: it consists of items that scored at
\* or above the threshold, it is sorted by score descending (fetch order among
\* equals), it has min(budget, number of qualifying items) entries, and every
\* qualifying item left out ranks after every selected one
C13_ReferenceSelection ==
  (SelectionDone /\ ai_config.max_daily >= 0
     /\ \A p \in 1..Len(all_content) : ~InLedger(all_content[p]))
    => /\ \A k \in 1..Len(selected) :
            /\ selected[k].post \in 1..Len(all_content)
            /\ Qualifies(selected[k].post)
            /\ selected[k] = [all_content[selected[k].post]
                                EXCEPT !.ai_score = results[selected[k].post].score]
       /\ \A k, m \in 1..Len(selected) :
            k < m => \/ selected[k].ai_score > selected[m].ai_score
                     \/ /\ selected[k].ai_score = selected[m].ai_score
                        /\ selected[k].post < selected[m].post
       /\ Len(selected) = Min(ai_config.max_daily,
                              Cardinality({p \in 1..Len(all_content) : Qualifies(p)}))
       /\ \A p \in 1..Len(all_content) : \A k \in 1..Len(selected) :
            (Qualifies(p) /\ p \notin PostsOf(selected))
              => \/ results[p].score < selected[k].ai_score
                 \/ /\ results[p].score = selected[k].ai_score
                    /\ p > selected[k].post

\* threshold 0.65, budget 1, scores 0.65, 0.42, 0.92 in fetch order, nothing
\* in the ledger: the second item is below the threshold, the third is ranked
\* first and the first is cut by the budget
C13_Witness ==
  /\ SelectionDone
  /\ ai_config = [min_score |-> 650, max_daily |-> 1]
  /\ posted_history = EmptyLedger
  /\ Len(all_content) = 3
  /\ results = <<ScoreResult(FALSE, 650), ScoreResult(FALSE, 420), ScoreResult(FALSE, 920)>>
  /\ Len(selected) = 1 /\ selected[1].post = 3 /\ selected[1].ai_score = 920

\* C14: for the same fetched items, scoring results, budget and ledger,
\* a threshold at or above the configured one never selects more items
C14_ThresholdMonotone ==
  SelectionDone =>
    \A t \in Thresholds :
      t >= ai_config.min_score
        => Len(RunSelection(all_content, results, t, ai_config.max_daily)) <= Len(selected)

\* two items are selected and a higher threshold selects only one
C14_Witness ==
  /\ SelectionDone
  /\ Len(selected) = 2
  /\ \E t \in Thresholds :
       /\ t > ai_config.min_score
       /\ Len(RunSelection(all_content, results, t, ai_config.max_daily)) = 1

\* C15: the selection is the function RunSelection of the fetched items, the
\* scoring results and the two configured values, and it is sorted by score
\* descending with equal scores in their original fetch order
C15_StableDescending ==
  SelectionDone =>
    /\ selected = RunSelection(all_content, results, ai_config.min_score, ai_config.max_daily)
    /\ \A k, m \in 1..Len(selected) :
         k < m => /\ selected[k].ai_score >= selected[m].ai_score
                  /\ selected[k].ai_score = selected[m].ai_score
                       => selected[k].post < selected[m].post

\* three items qualify, the first fetched has the lowest score, the other
\* two tie: they are selected in fetch order, ahead of the first
C15_Witness ==
  /\ SelectionDone
  /\ Len(scored_content) = 3
  /\ results[1].score < results[2].score /\ results[2].score = results[3].score
  /\ Len(selected) = 2
  /\ selected[1].post = 2 /\ selected[2].post = 3

\* score_meme failed on the fetched item at position p (PIL could not open it)
ScoringFailed(p) == ~results[p].raised /\ ~all_content[p].image.pil_ok

GoodImages == {DecentImage, ViralImage}

\* run_cycle has selected a non-empty list and enters the publishing loop
InitPublish ==
  /\ config \in [enable_reactions : BOOLEAN, max_history_entries : {MaxCap}]
  /\ history_file \in PipelineFiles
  /\ posted_history = _load_history(history_file).value
  /\ pc = "idle"
  /\ call = NoCall
  /\ pre = [mem |-> posted_history, file |-> history_file]
  /\ fresh = TRUE
  /\ calls = 0
  /\ delivered = {}
  /\ durable = {}
  /\ scoring = NoScoring
  /\ ai_config \in [min_score : {DefaultAiConfig.min_score}, max_daily : 1..MaxBudget]
  /\ phase = "publishing"
  /\ all_content \in {c \in ContentLists(MaxItems) :
                        \A i \in 1..Len(c) : c[i].image \in GoodImages}
  /\ results = [i \in 1..Len(all_content) |->
                  ScoreResult(FALSE, score_meme(all_content[i].image).ret)]
  /\ scored_content = RunSelection(all_content, results, ai_config.min_score,
                                   Len(all_content))
  /\ selected = RunSelection(all_content, results, ai_config.min_score, ai_config.max_daily)
  /\ idx = 1
  /\ posted = 0
  /\ since_wait = 0
  /\ CycleFresh

\* one caption_gen.generate call: whether the generator uses the AI model,
\* whether the model call raises, and whether the template code raises
\* (_get_context calls .lower() on the title, which the scraper can pass as None)
CaptionCalls == [use_ai : BOOLEAN, ai_raises : BOOLEAN, template_raises : BOOLEAN]

\* CaptionGenerator.generate: the AI caption, the template caption (also the
\* fallback of _generate_ai_caption when the model raises), or the exception
\* of the template code, which nothing in the generator catches
generate(c) ==
  IF c.use_ai /\ ~c.ai_raises THEN "ai"
  ELSE IF c.template_raises THEN "raises"
  ELSE "template"

\* the for loop moves to the next selected item, or ends the cycle
Advance ==
  /\ idx' = idx + 1
  /\ phase' = IF idx >= Len(selected) THEN "complete" ELSE "publishing"

\* the loop with a break in place of the continue: a failed item ends it
AfterAwait_break_on_failure ==
  IF pc' # "idle" THEN UNCHANGED <<phase, idx, posted>>
  ELSE IF call'.ret = "True"
       THEN /\ posted' = posted + 1
            /\ IF posted + 1 < Len(selected)
               THEN phase' = "waiting" /\ idx' = idx
               ELSE Advance
       ELSE posted' = posted /\ idx' = idx + 1 /\ phase' = "complete"

\* post_content started as a task and not awaited: the loop goes on at once
AfterAwait_not_awaited ==
  IF call'.ret = "True"
  THEN /\ posted' = posted + 1
       /\ IF posted + 1 < Len(selected)
          THEN phase' = "waiting" /\ idx' = idx
          ELSE Advance
  ELSE posted' = posted /\ Advance

\* lines 156-162, once post_content has returned (pc' = "idle"): count a
\* success and sleep when posted < len(selected); otherwise the next item
AfterAwait ==
  IF pc' # "idle" THEN UNCHANGED <<phase, idx, posted>>
  ELSE IF call'.ret = "True"
       THEN /\ posted' = posted + 1
            /\ IF posted + 1 < Len(selected)
               THEN phase' = "waiting" /\ idx' = idx
               ELSE Advance
       ELSE posted' = posted /\ Advance

\* lines 134-145 and post_content up to its first await: the caption is
\* generated (or caption_gen.generate raises and the item is skipped), then
\* post_content begins
PublishBegin(captionOk, channel, fileOk) ==
  /\ phase = "publishing"
  /\ pc = "idle"
  /\ idx <= Len(selected)
  /\ IF captionOk
     THEN PostBegin(ItemPath(selected[idx]), channel, fileOk) /\ AfterAwait
     ELSE /\ Advance
          /\ posted' = posted
          /\ UNCHANGED <<config, history_file, posted_history, pc, call, pre, fresh,
                         calls, delivered, durable>>
  /\ UNCHANGED <<scoring, ai_config, all_content, results, scored_content, selected,
                 since_wait>>
  /\ attempted' = Append(attempted, selected[idx].post)
  /\ UNCHANGED <<fetched, downloaded_ids, startup, json_fetch>>

\* channel.send returns or raises inside the awaited post_content
PublishSend(res) ==
  /\ phase = "publishing"
  /\ SendDone(res)
  /\ AfterAwait
  /\ since_wait' = IF res = "ok" THEN since_wait + 1 ELSE since_wait
  /\ UNCHANGED <<scoring, ai_config, all_content, results, scored_content, selected>>
  /\ UNCHANGED <<attempted, fetched, downloaded_ids, startup, json_fetch>>

\* one add_reaction returns or raises inside the awaited post_content
PublishReact(res) ==
  /\ phase = "publishing"
  /\ ReactDone(res)
  /\ AfterAwait
  /\ UNCHANGED <<scoring, ai_config, all_content, results, scored_content, selected,
                 since_wait>>
  /\ UNCHANGED <<attempted, fetched, downloaded_ids, startup, json_fetch>>

\* _record_post runs and post_content returns
PublishRecord(w) ==
  /\ phase = "publishing"
  /\ Record(w)
  /\ AfterAwait
  /\ UNCHANGED <<scoring, ai_config, all_content, results, scored_content, selected,
                 since_wait>>
  /\ UNCHANGED <<attempted, fetched, downloaded_ids, startup, json_fetch>>

\* line 162: asyncio.sleep(self.post_interval) returns after the interval
WaitDone ==
  /\ phase = "waiting"
  /\ since_wait' = 0
  /\ Advance
  /\ UNCHANGED <<config, history_file, posted_history, pc, call, pre, fresh, calls,
                 delivered, durable, scoring, ai_config, all_content, results,
                 scored_content, selected, posted>>
  /\ UNCHANGED <<attempted, fetched, downloaded_ids, startup, json_fetch>>

NextPublish ==
  \/ \E c \in CaptionCalls, ch \in ChannelOutcomes, fileOk \in BOOLEAN :
       PublishBegin(generate(c) # "raises", ch, fileOk)
  \/ \E res \in AwaitResults : PublishSend(res)
  \/ \E res \in AwaitResults : PublishReact(res)
  \/ \E w \in WriteOutcomes : PublishRecord(w)
  \/ WaitDone

SpecPublish == InitPublish /\ [][NextPublish]_vars

\* C20: within one cycle a full post_interval wait lies between any two
\* consecutive channel.send calls that succeed: at most one send has
\* succeeded since the last wait ended
C20_WaitBetweenSends == since_wait <= 1

\* C21: the loop waits only after a Posted outcome that another selected
\* item follows: never after the last selected item, never after an
\* AlreadyPosted or Failed outcome
C21_WaitOnlyBeforeNextItem ==
  phase = "waiting" => (call.outcome = "Posted" /\ idx < Len(selected))

\* C22: the items of the publishing loop are the selected items, each once,
\* in the order of the selected list, which is descending by score; when the
\* loop ends, every selected item has been attempted, whatever failed on the way
C22_EveryItemAttemptedOnce ==
  /\ Len(attempted) <= Len(selected)
  /\ \A k \in 1..Len(attempted) : attempted[k] = selected[k].post
  /\ \A k, m \in 1..Len(selected) : k < m => selected[k].ai_score >= selected[m].ai_score
  /\ phase = "complete" => Len(attempted) = Len(selected)

\* the first of two selected items failed and the second was then posted
C22_Witness ==
  /\ phase = "complete"
  /\ Len(selected) = 2 /\ Len(attempted) = 2
  /\ posted = 1 /\ calls = 2
  /\ call.outcome = "Posted"
  /\ call.content_id = _generate_content_id(ItemPath(selected[2]))

\* C23: the loop never leaves a selected item without having called the
\* publisher for it: a step that begins an item's iteration begins a
\* post_content call, also when the caption generation fails
C23_CaptionFailureStillPublishes ==
  [][(phase = "publishing" /\ pc = "idle" /\ idx <= Len(selected))
       => calls' = calls + 1]_vars

\* ========================================================= the whole cycle
\* src/master_pipeline.py: run_cycle from its fetch loop (lines 62-96) on,
\* called again and again by the loop of start_bot_and_pipeline (lines 199-205).

\* the default of reddit.subreddits: the sources of a cycle, in order
Subreddits == <<"memes", "dankmemes">>

\* the posts Imgur can list during a run
PostIds == 1..MaxPosts

\* the files behind the posts: all score 0.92 unless the scoring call raises
FetchImages == {ViralImage}

\* what Imgur lists for one scrape_subreddit call of a cycle: its first k
\* posts, in listing order, each with the file that download_image stores
\* for it (download_ok: download_image returns the path, not None)
RECURSIVE OffersUpTo(_)
OffersUpTo(n) ==
  IF n = 0 THEN {<<>>}
  ELSE LET shorter == OffersUpTo(n - 1)
       IN shorter \cup {Append(o, [post |-> n, image |-> im, download_ok |-> TRUE]) :
                          o \in {x \in shorter : Len(x) = n - 1}, im \in FetchImages}
Offers == OffersUpTo(MaxPosts)

\* a loop that enters the post id in downloaded_ids before the download
RECURSIVE ScrapeLoop_marks_first(_, _, _)
ScrapeLoop_marks_first(posts, downloaded, out) ==
  IF posts = <<>> THEN [memes |-> out, downloaded_ids |-> downloaded]
  ELSE LET p == Head(posts)
       IN IF p.post \in downloaded
          THEN ScrapeLoop_marks_first(Tail(posts), downloaded, out)
          ELSE IF ~p.download_ok
          THEN ScrapeLoop_marks_first(Tail(posts), downloaded \cup {p.post}, out)
          ELSE ScrapeLoop_marks_first(Tail(posts), downloaded \cup {p.post},
                                      Append(out, Item(p.post, p.image)))

\* the for loop of scrape_subreddit, lines 119-153: a post whose id is in
\* downloaded_ids is skipped; otherwise download_image is called, and when it
\* returns a path the id is added to downloaded_ids and the item appended
RECURSIVE ScrapeLoop(_, _, _)
ScrapeLoop(posts, downloaded, out) ==
  IF posts = <<>> THEN [memes |-> out, downloaded_ids |-> downloaded]
  ELSE LET p == Head(posts)
       IN IF p.post \in downloaded \/ ~p.download_ok
          THEN ScrapeLoop(Tail(posts), downloaded, out)
          ELSE ScrapeLoop(Tail(posts), downloaded \cup {p.post},
                          Append(out, Item(p.post, p.image)))

\* ImgurMemeScraper.scrape_subreddit on what fetch_imgur_posts returned: the
\* items downloaded by this call, in listing order, and downloaded_ids after it
scrape_subreddit(offer, downloaded) == ScrapeLoop(offer, downloaded, <<>>)

\* start_bot_and_pipeline has connected the bot and runs cycles
Cycling == [entry |-> "start_bot_and_pipeline", bot_token |-> "valid",
            channel_id |-> "valid", stage |-> "cycling", polls |-> 1, ready |-> TRUE,
            cycles |-> 1, closes |-> 0, cleanups |-> 0]

\* the locals of run_cycle at its entry (lines 62 and 100, 133)
CycleLocalsReset ==
  /\ all_content' = <<>>
  /\ results' = <<>>
  /\ scored_content' = <<>>
  /\ selected' = <<>>
  /\ idx' = 1
  /\ posted' = 0
  /\ since_wait' = 0
  /\ attempted' = <<>>
  /\ fetched' = <<>>

\* the first run_cycle call begins
\* the history file at start-up: none yet, or one that holds the first post
CycleFiles ==
  {AbsentFile,
   [kind |-> "json", posted |-> <<Entry(_generate_content_id(ItemPath(Item(1, ViralImage))))>>]}

InitCycle ==
  /\ config \in [enable_reactions : {TRUE}, max_history_entries : {MaxCap}]
  /\ history_file \in CycleFiles
  /\ posted_history = _load_history(history_file).value
  /\ pc = "idle"
  /\ call = NoCall
  /\ pre = [mem |-> posted_history, file |-> history_file]
  /\ fresh = TRUE
  /\ calls = 0
  /\ delivered = {}
  /\ durable = {}
  /\ scoring = NoScoring
  /\ ai_config = DefaultAiConfig
  /\ phase = "fetching"
  /\ all_content = <<>>
  /\ results = <<>>
  /\ scored_content = <<>>
  /\ selected = <<>>
  /\ idx = 1
  /\ posted = 0
  /\ since_wait = 0
  /\ attempted = <<>>
  /\ fetched = <<>>
  /\ downloaded_ids = {}
  /\ startup = Cycling
  /\ json_fetch = NoJsonFetch

\* a source whose error ends the cycle (a return in the except clause)
FetchSource_abort_on_error(raises, offer) ==
  LET r == scrape_subreddit(offer, downloaded_ids)
      memes == IF raises THEN <<>> ELSE r.memes
  IN /\ phase = "fetching"
     /\ Len(fetched) < Len(Subreddits)
     /\ fetched' = Append(fetched, [raised |-> raises, memes |-> memes])
     /\ all_content' = all_content \o memes
     /\ downloaded_ids' = IF raises THEN downloaded_ids ELSE r.downloaded_ids
     /\ phase' = IF raises THEN "complete"
                 ELSE IF Len(fetched) + 1 < Len(Subreddits) THEN "fetching"
                 ELSE IF all_content' = <<>> THEN "complete"
                 ELSE "scoring"
     /\ UNCHANGED <<config, history_file, posted_history, pc, call, pre, fresh, calls,
                    delivered, durable, scoring, ai_config, results, scored_content,
                    selected, idx, posted, since_wait, attempted, startup, json_fetch>>

\* a source whose error leaves run_cycle and the loop that calls it
FetchSource_raises_through(raises, offer) ==
  LET r == scrape_subreddit(offer, downloaded_ids)
      memes == IF raises THEN <<>> ELSE r.memes
  IN /\ phase = "fetching"
     /\ Len(fetched) < Len(Subreddits)
     /\ fetched' = Append(fetched, [raised |-> raises, memes |-> memes])
     /\ all_content' = all_content \o memes
     /\ downloaded_ids' = IF raises THEN downloaded_ids ELSE r.downloaded_ids
     /\ phase' = IF raises THEN "crashed"
                 ELSE IF Len(fetched) + 1 < Len(Subreddits) THEN "fetching"
                 ELSE IF all_content' = <<>> THEN "complete"
                 ELSE "scoring"
     /\ UNCHANGED <<config, history_file, posted_history, pc, call, pre, fresh, calls,
                    delivered, durable, scoring, ai_config, results, scored_content,
                    selected, idx, posted, since_wait, attempted, startup, json_fetch>>

\* a fetch loop that goes on to scoring as soon as one source has returned items
FetchSource_eager(raises, offer) ==
  LET r == scrape_subreddit(offer, downloaded_ids)
      memes == IF raises THEN <<>> ELSE r.memes
  IN /\ phase = "fetching"
     /\ Len(fetched) < Len(Subreddits)
     /\ fetched' = Append(fetched, [raised |-> raises, memes |-> memes])
     /\ all_content' = all_content \o memes
     /\ downloaded_ids' = IF raises THEN downloaded_ids ELSE r.downloaded_ids
     /\ phase' = IF all_content' # <<>> THEN "scoring"
                 ELSE IF Len(fetched) + 1 < Len(Subreddits) THEN "fetching"
                 ELSE "complete"
     /\ UNCHANGED <<config, history_file, posted_history, pc, call, pre, fresh, calls,
                    delivered, durable, scoring, ai_config, results, scored_content,
                    selected, idx, posted, since_wait, attempted, startup, json_fetch>>

\* a fetch loop without the empty check of lines 94-96
FetchSource_no_empty_check(raises, offer) ==
  LET r == scrape_subreddit(offer, downloaded_ids)
      memes == IF raises THEN <<>> ELSE r.memes
  IN /\ phase = "fetching"
     /\ Len(fetched) < Len(Subreddits)
     /\ fetched' = Append(fetched, [raised |-> raises, memes |-> memes])
     /\ all_content' = all_content \o memes
     /\ downloaded_ids' = IF raises THEN downloaded_ids ELSE r.downloaded_ids
     /\ phase' = IF Len(fetched) + 1 < Len(Subreddits) THEN "fetching"
                 ELSE IF all_content' = <<>> THEN "selecting"
                 ELSE "scoring"
     /\ UNCHANGED <<config, history_file, posted_history, pc, call, pre, fresh, calls,
                    delivered, durable, scoring, ai_config, results, scored_content,
                    selected, idx, posted, since_wait, attempted, startup, json_fetch>>

\* one iteration of the fetch loop, lines 73-90: the executor call raises
\* (logged, next source) or scrape_subreddit returns its list, which is
\* appended to all_content; after the last source, lines 92-96: return when
\* all_content is empty, otherwise on to the scoring loop
FetchSource(raises, offer) ==
  LET r == scrape_subreddit(offer, downloaded_ids)
      memes == IF raises THEN <<>> ELSE r.memes
  IN /\ phase = "fetching"
     /\ Len(fetched) < Len(Subreddits)
     /\ fetched' = Append(fetched, [raised |-> raises, memes |-> memes])
     /\ all_content' = all_content \o memes
     /\ downloaded_ids' = IF raises THEN downloaded_ids ELSE r.downloaded_ids
     /\ phase' = IF Len(fetched) + 1 < Len(Subreddits) THEN "fetching"
                 ELSE IF all_content' = <<>> THEN "complete"
                 ELSE "scoring"
     /\ UNCHANGED <<config, history_file, posted_history, pc, call, pre, fresh, calls,
                    delivered, durable, scoring, ai_config, results, scored_content,
                    selected, idx, posted, since_wait, attempted, startup, json_fetch>>

\* run_cycle returns; start_bot_and_pipeline, lines 201-205, reads
\* scrape_interval_hours and awaits the inter-cycle sleep
CycleEnd ==
  /\ phase = "complete"
  /\ phase' = "idle"
  /\ UNCHANGED <<config, history_file, posted_history, pc, call, pre, fresh, calls,
                 delivered, durable, scoring, ai_config, all_content, results,
                 scored_content, selected, idx, posted, since_wait, attempted,
                 fetched, downloaded_ids, startup, json_fetch>>

\* the inter-cycle sleep returns and the while loop calls run_cycle again
IdleDone ==
  /\ phase = "idle"
  /\ phase' = "fetching"
  /\ CycleLocalsReset
  /\ UNCHANGED <<config, history_file, posted_history, pc, call, pre, fresh, calls,
                 delivered, durable, scoring, ai_config, downloaded_ids, startup, json_fetch>>

NextCycle ==
  \/ \E raises \in BOOLEAN, offer \in Offers : FetchSource(raises, offer)
  \/ \E raises \in BOOLEAN : ScoreItem(raises)
  \/ Select
  \/ \E c \in CaptionCalls, ch \in ChannelOutcomes, fileOk \in BOOLEAN :
       PublishBegin(generate(c) # "raises", ch, fileOk)
  \/ \E res \in AwaitResults : PublishSend(res)
  \/ \E res \in AwaitResults : PublishReact(res)
  \/ \E w \in WriteOutcomes : PublishRecord(w)
  \/ WaitDone
  \/ CycleEnd
  \/ IdleDone

SpecCycle == InitCycle /\ [][NextCycle]_vars

\* every awaited call returns, with a result or an error: whatever step the
\* pipeline is waiting for eventually happens
SpecCycleFair == SpecCycle /\ WF_vars(NextCycle)

\* the items of the sources that returned, in source order
RECURSIVE ConcatMemes(_)
ConcatMemes(fs) ==
  IF fs = <<>> THEN <<>>
  ELSE ConcatMemes(SubSeq(fs, 1, Len(fs) - 1))
         \o (IF fs[Len(fs)].raised THEN <<>> ELSE fs[Len(fs)].memes)

AllFetched == Len(fetched) = Len(Subreddits)

\* C24: a source whose fetch raises is skipped: the items of the other
\* sources are concatenated in source order, and the cycle goes on to scoring
\* with them.
C24_FailingSourceSkipped ==
  /\ [](phase \in {"fetching", "scoring", "selecting", "publishing", "waiting",
                   "complete", "idle"})
  /\ [](all_content = ConcatMemes(fetched))
  /\ [][(phase = "fetching" /\ Len(fetched') > Len(fetched))
          => /\ (~AllFetched' => phase' = "fetching")
             /\ ((AllFetched' /\ all_content' # <<>>) => phase' = "scoring")]_vars

C24_Witness ==
  /\ phase = "scoring"
  /\ AllFetched
  /\ fetched[1].raised
  /\ ~fetched[2].raised
  /\ Len(all_content) = 2
  /\ Len(results) = 1

\* the cycle whose sources all came back empty or raised
EmptyCycle == AllFetched /\ all_content = <<>>

\* C25: when the aggregate fetch result is empty the cycle ends at once: no
\* item is scored, no caption is generated, the publisher is not called, the
\* ledger and its file stay as they were, and the inter-cycle wait follows.
C25_EmptyFetchEndsCycle ==
  /\ [](EmptyCycle => /\ phase \in {"complete", "idle"}
                      /\ results = <<>>
                      /\ selected = <<>>
                      /\ attempted = <<>>
                      /\ pc = "idle")
  /\ [][EmptyCycle' => UNCHANGED <<calls, posted_history, history_file, delivered>>]_vars
  /\ [][(EmptyCycle /\ phase = "complete") => phase' = "idle"]_vars

C25_Witness ==
  /\ EmptyCycle
  /\ phase = "idle"
  /\ fetched[1].raised
  /\ ~fetched[2].raised
  /\ downloaded_ids # {}
  /\ posted_history # <<>>

\* C26: when every awaited call returns, every cycle that starts completes,
\* its completion is followed by the inter-cycle wait, and the wait by the
\* next cycle: the loop never stops by itself.
C26_CyclesKeepRunning ==
  /\ (phase = "fetching" ~> phase = "complete")
  /\ (phase = "complete" ~> phase = "idle")
  /\ (phase = "idle" ~> phase = "fetching")

\* a cycle in which a publish call failed has ended and the next one has begun
C26_Witness ==
  /\ phase = "fetching"
  /\ fetched = <<>>
  /\ downloaded_ids # {}
  /\ call.outcome = "Failed"

\* the phases a cycle may enter next from each phase
PhaseSuccessors ==
  [fetching   |-> {"fetching", "scoring", "complete"},
   scoring    |-> {"scoring", "selecting"},
   selecting  |-> {"publishing", "complete"},
   publishing |-> {"publishing", "waiting", "complete"},
   waiting    |-> {"publishing", "complete"},
   complete   |-> {"idle"},
   idle       |-> {"fetching"}]

\* C27: a cycle moves through its phases in the order fetching, scoring,
\* selecting, publishing, idle: no item is scored before every source has
\* been fetched, the selection is computed once, after every fetched item has
\* been scored, and no publish call is made before the selection.
C27_PhasesInOrder ==
  /\ [][phase' \in PhaseSuccessors[phase]]_vars
  /\ [][Len(results') > Len(results)
          => (phase = "scoring" /\ AllFetched /\ all_content = ConcatMemes(fetched))]_vars
  /\ [][selected' # selected
          => \/ phase = "idle" /\ selected' = <<>>
             \/ /\ phase = "selecting"
                /\ selected = <<>>
                /\ Len(results) = Len(all_content)]_vars
  /\ [][calls' # calls => (phase = "publishing" /\ SelectionDone)]_vars
  /\ [][attempted' # attempted
          => (phase = "idle" \/ (phase = "publishing" /\ SelectionDone))]_vars

\* a cycle that went through every phase has reached the inter-cycle wait
C27_Witness ==
  /\ phase = "idle"
  /\ AllFetched
  /\ Len(results) = 2
  /\ Len(selected) = 2
  /\ Len(attempted) = 2
  /\ posted = 2

\* C29: the ledger is written from the publishing phase only: fetching,
\* scoring and selecting leave the in-memory ledger and the history file as
\* they are.
C29_LedgerWrittenOnlyWhenPublishing ==
  /\ [][(phase \in {"fetching", "scoring", "selecting"})
          => (posted_history' = posted_history /\ history_file' = history_file)]_vars
  /\ [][(posted_history' # posted_history \/ history_file' # history_file)
          => (phase = "publishing" /\ pc = "record")]_vars

\* the second cycle has fetched, scored and selected with a ledger that the
\* first cycle wrote, and is about to publish
C29_Witness ==
  /\ phase = "publishing"
  /\ pc = "idle"
  /\ attempted = <<>>
  /\ selected # <<>>
  /\ calls = 1
  /\ call.outcome = "Posted"
  /\ posted_history.posted # <<>>
  /\ history_file.kind = "json"

\* C30: publishing is strictly sequential: the publish call in flight is the
\* one of the item the loop stands at, the loop moves on only in the step in
\* which that call returns, and a call begins only when none is in flight, so
\* the ledger check, send and record of one item are over before the ledger
\* check of the next.
C30_PublishingSequential ==
  /\ [](pc # "idle"
          => /\ phase = "publishing"
             /\ idx <= Len(selected)
             /\ call.content_id = _generate_content_id(ItemPath(selected[idx])))
  /\ [][(phase = "publishing" /\ (idx' # idx \/ phase' # phase)) => pc' = "idle"]_vars
  /\ [][calls' # calls => (pc = "idle" /\ calls' = calls + 1)]_vars

\* the second item's call is in flight after the first item was sent and recorded
C30_Witness ==
  /\ pc = "send"
  /\ idx = 2
  /\ calls = 2
  /\ posted = 1
  /\ _generate_content_id(ItemPath(selected[1])) \in IdsOf(posted_history.posted)
  /\ _generate_content_id(ItemPath(selected[1])) \in delivered

\* =============================================================== start-up
\* src/master_pipeline.py: start_bot_and_pipeline, lines 173-201, and
\* src/run_once.py: run_once, lines 24-46, up to their first run_cycle call.

\* the polls of bot.is_ready(), one second apart
NumPolls == 30

EntryPoints == {"start_bot_and_pipeline", "run_once"}

\* discord.bot_token in the configuration: a token Discord accepts, none,
\* or the placeholder of the configuration template
TokenKinds == {"valid", "missing", "placeholder"}

\* discord.channel_id in the configuration, likewise
ChannelIdKinds == {"valid", "missing", "placeholder"}

\* an entry point is called on some configuration
InitStart ==
  /\ PublisherIdle
  /\ scoring = NoScoring
  /\ ai_config = DefaultAiConfig
  /\ phase = "off"
  /\ all_content = <<>>
  /\ results = <<>>
  /\ scored_content = <<>>
  /\ selected = <<>>
  /\ idx = 0
  /\ posted = 0
  /\ since_wait = 0
  /\ attempted = <<>>
  /\ fetched = <<>>
  /\ downloaded_ids = {}
  /\ startup \in [entry : EntryPoints, bot_token : TokenKinds,
                  channel_id : ChannelIdKinds, stage : {"begin"}, polls : {0},
                  ready : {FALSE}, cycles : {0}, closes : {0}, cleanups : {0}]
  /\ json_fetch = NoJsonFetch

\* start_bot_and_pipeline, lines 175-184: return when the token is missing
\* or the placeholder, otherwise start the bot task; run_once, lines 28-33,
\* starts the bot task whatever the token is
Launch ==
  /\ startup.stage = "begin"
  /\ startup' =
       IF startup.entry = "start_bot_and_pipeline" /\ startup.bot_token # "valid"
       THEN [startup EXCEPT !.stage = "refused"]
       ELSE [startup EXCEPT !.stage = "connecting"]
  /\ UNCHANGED <<config, history_file, posted_history, pc, call, pre, fresh, calls,
                 delivered, durable, scoring, ai_config, phase, all_content, results,
                 scored_content, selected, idx, posted, since_wait, attempted,
                 fetched, downloaded_ids, json_fetch>>

\* a polling loop without its else clause: after the last poll the code
\* falls through to the cycles
Poll_falls_through(ready) ==
  /\ startup.stage = "connecting"
  /\ startup.polls < NumPolls
  /\ ready => startup.bot_token = "valid"
  /\ startup' = [startup EXCEPT
                   !.polls = @ + 1,
                   !.ready = ready,
                   !.cycles = IF ready \/ startup.polls + 1 = NumPolls THEN @ + 1 ELSE @,
                   !.stage = IF ready \/ startup.polls + 1 = NumPolls THEN "cycling"
                             ELSE "connecting"]
  /\ phase' = IF startup'.stage = "cycling" THEN "fetching" ELSE phase
  /\ idx' = IF startup'.stage = "cycling" THEN 1 ELSE idx
  /\ UNCHANGED <<config, history_file, posted_history, pc, call, pre, fresh, calls,
                 delivered, durable, scoring, ai_config, all_content, results,
                 scored_content, selected, posted, since_wait, attempted,
                 fetched, downloaded_ids, json_fetch>>

\* one round of the polling loop (master_pipeline.py 187-194, run_once.py
\* 35-42): sleep, then is_ready(); bot.start fails on a token Discord does
\* not accept, so the bot becomes ready with a valid token only.  Ready: the
\* loop breaks and run_cycle is called; not ready for the last time: return
Poll(ready) ==
  /\ startup.stage = "connecting"
  /\ startup.polls < NumPolls
  /\ ready => startup.bot_token = "valid"
  /\ startup' = [startup EXCEPT
                   !.polls = @ + 1,
                   !.ready = ready,
                   !.cycles = IF ready THEN @ + 1 ELSE @,
                   !.stage = IF ready THEN "cycling"
                             ELSE IF startup.polls + 1 = NumPolls THEN "gave_up"
                             ELSE "connecting"]
  /\ phase' = IF ready THEN "fetching" ELSE phase
  /\ idx' = IF ready THEN 1 ELSE idx
  /\ UNCHANGED <<config, history_file, posted_history, pc, call, pre, fresh, calls,
                 delivered, durable, scoring, ai_config, all_content, results,
                 scored_content, selected, posted, since_wait, attempted,
                 fetched, downloaded_ids, json_fetch>>

\* run_once, lines 44-46: the one run_cycle call returns, or an exception
\* that run_cycle does not catch (a cancellation, an interrupt) leaves it;
\* either way the finally clause is entered
CycleReturns(raised) ==
  /\ startup.entry = "run_once"
  /\ startup.stage = "cycling"
  /\ startup' = [startup EXCEPT !.stage = "closing"]
  /\ phase' = IF raised THEN "raised" ELSE "complete"
  /\ UNCHANGED <<config, history_file, posted_history, pc, call, pre, fresh, calls,
                 delivered, durable, scoring, ai_config, all_content, results,
                 scored_content, selected, idx, posted, since_wait, attempted,
                 fetched, downloaded_ids, json_fetch>>

\* run_once, line 47: await pipeline.discord.bot.close() returns, or raises
\* and leaves the finally clause and run_once
BotClose(res) ==
  /\ startup.stage = "closing"
  /\ startup' = [startup EXCEPT !.closes = @ + 1,
                                !.stage = IF res = "ok" THEN "cleanup" ELSE "close_raised"]
  /\ UNCHANGED <<config, history_file, posted_history, pc, call, pre, fresh, calls,
                 delivered, durable, scoring, ai_config, phase, all_content, results,
                 scored_content, selected, idx, posted, since_wait, attempted,
                 fetched, downloaded_ids, json_fetch>>

\* run_once, line 48: cleanup_files() (lines 11-22), which catches its own errors
Cleanup ==
  /\ startup.stage = "cleanup"
  /\ startup' = [startup EXCEPT !.cleanups = @ + 1, !.stage = "done"]
  /\ UNCHANGED <<config, history_file, posted_history, pc, call, pre, fresh, calls,
                 delivered, durable, scoring, ai_config, phase, all_content, results,
                 scored_content, selected, idx, posted, since_wait, attempted,
                 fetched, downloaded_ids, json_fetch>>

NextStart ==
  \/ Launch
  \/ \E ready \in BOOLEAN : Poll(ready)
  \/ \E raised \in BOOLEAN : CycleReturns(raised)
  \/ \E res \in AwaitResults : BotClose(res)
  \/ Cleanup

SpecStart == InitStart /\ [][NextStart]_vars

\* C28: no cycle is started, from either entry point, when the bot token or
\* the channel id is missing or a placeholder.
C28_NoCycleWithoutCredentials ==
  phase = "fetching" => (startup.bot_token = "valid" /\ startup.channel_id = "valid")

\* ============================================================ cancellation
\* The task that runs start_bot_and_pipeline is cancelled.  asyncio raises
\* CancelledError at the await the task is suspended in; CancelledError is not
\* an Exception, so neither "except Exception" of post_content (line 144) nor
\* those of run_cycle (lines 164, 170) catch it: it leaves post_content,
\* run_cycle and the while loop, and the finally clause of lines 208-211
\* shuts the executor down and closes the bot.

\* the stop signal arrives.  Suspended in channel.send: the request may or
\* may not have reached the channel (sent); suspended in add_reaction: the
\* message is already in the channel; suspended in the sleep between posts:
\* no call is in flight.  _record_post has no await: no signal arrives in it.
Stop(sent) ==
  /\ \/ phase = "publishing" /\ pc \in {"send", "react"}
     \/ phase = "waiting" /\ pc = "idle"
  /\ sent => pc = "send"
  /\ phase' = "stopped"
  /\ pc' = "idle"
  /\ call' = IF pc = "idle" THEN call
             ELSE [call EXCEPT !.outcome = "Cancelled",
                               !.send_ok = IF pc = "send" THEN sent ELSE @]
  /\ delivered' = IF sent THEN delivered \cup {call.content_id} ELSE delivered
  /\ UNCHANGED <<config, history_file, posted_history, pre, fresh, calls, durable,
                 scoring, ai_config, all_content, results, scored_content, selected,
                 idx, posted, since_wait, attempted, fetched, downloaded_ids, startup, json_fetch>>

NextCancel ==
  \/ \E c \in CaptionCalls, ch \in ChannelOutcomes, fileOk \in BOOLEAN :
       PublishBegin(generate(c) # "raises", ch, fileOk)
  \/ \E res \in AwaitResults : PublishSend(res)
  \/ \E res \in AwaitResults : PublishReact(res)
  \/ \E w \in WriteOutcomes : PublishRecord(w)
  \/ WaitDone
  \/ \E sent \in BOOLEAN : Stop(sent)

SpecCancel == InitPublish /\ [][NextCancel]_vars

\* C31: a stop signal that arrives while a publish call is in flight leaves
\* no item delivered to the channel without a ledger entry: the call runs to
\* its record step before the orchestrator exits.
C31_StopLeavesNoHalfDelivery ==
  (phase = "stopped" /\ call.outcome = "Cancelled" /\ call.send_ok)
    => (posted_history.ok /\ call.content_id \in IdsOf(posted_history.posted))

\* ========================================================= get_reddit_json
\* src/reddit_meme_scraper_no_api.py: RedditMemeScraper.get_reddit_json,
\* lines 205-259.

\* max_retries and the first retry_delay, in seconds
MaxRetries == 3
FirstRetryDelay == 2

SortKinds == {"hot", "new", "top", "rising"}

\* what one request attempt comes to: a response whose JSON holds the post
\* list, a timeout, an HTTP error status, or a body without data.children
RequestOutcomes == {"ok", "timeout", "http_error", "bad_json"}

\* the post lists a response can hold
JsonPosts == {[i \in 1..n |-> i] : n \in 0..MaxPosts}

\* a retry delay that stays the same
NextDelay_constant(retry_delay) == retry_delay

\* retry_delay *= 2
NextDelay(retry_delay) == retry_delay * 2

\* get_reddit_json is called
InitJson ==
  /\ PublisherIdle
  /\ scoring = NoScoring
  /\ ai_config = DefaultAiConfig
  /\ phase = "off"
  /\ all_content = <<>>
  /\ results = <<>>
  /\ scored_content = <<>>
  /\ selected = <<>>
  /\ idx = 0
  /\ posted = 0
  /\ since_wait = 0
  /\ attempted = <<>>
  /\ fetched = <<>>
  /\ downloaded_ids = {}
  /\ startup = NoStartup
  /\ json_fetch \in [sort_by : SortKinds, attempt : {0}, retry_delay : {FirstRetryDelay},
                     requests : {0}, sleeps : {<<>>}, failures : {<<>>},
                     served : {<<>>}, state : {"trying"}, ret : {<<>>}]

\* one iteration of the for loop, lines 226-257: the request; on a response
\* with a post list, return it; on a timeout or any other exception, sleep
\* retry_delay and double it when attempts are left, else return []
Attempt(outcome, posts) ==
  /\ json_fetch.state = "trying"
  /\ json_fetch.attempt < MaxRetries
  /\ json_fetch' =
       IF outcome = "ok"
       THEN [json_fetch EXCEPT !.requests = @ + 1, !.served = posts,
                               !.state = "returned", !.ret = posts]
       ELSE IF json_fetch.attempt < MaxRetries - 1
       THEN [json_fetch EXCEPT !.requests = @ + 1,
                               !.failures = Append(@, outcome),
                               !.sleeps = Append(@, json_fetch.retry_delay),
                               !.retry_delay = NextDelay(@),
                               !.attempt = @ + 1]
       ELSE [json_fetch EXCEPT !.requests = @ + 1,
                               !.failures = Append(@, outcome),
                               !.state = "returned", !.ret = <<>>]
  /\ UNCHANGED <<config, history_file, posted_history, pc, call, pre, fresh, calls,
                 delivered, durable, scoring, ai_config, phase, all_content, results,
                 scored_content, selected, idx, posted, since_wait, attempted,
                 fetched, downloaded_ids, startup>>

NextJson == \E outcome \in RequestOutcomes, posts \in JsonPosts : Attempt(outcome, posts)

SpecJson == InitJson /\ [][NextJson]_vars

\* C36: get_reddit_json makes at most 3 request attempts, returns the posts
\* of the first successful attempt without further attempts, sleeps 2 then 4
\* seconds between failed attempts, and returns an empty list after the
\* third failure.
C36_ThreeAttemptsWithBackoff ==
  /\ [](json_fetch.requests <= 3)
  /\ [](json_fetch.sleeps \in {<<>>, <<2>>, <<2, 4>>})
  /\ [](json_fetch.state = "trying"
          => /\ json_fetch.requests = Len(json_fetch.failures)
             /\ Len(json_fetch.sleeps) = Len(json_fetch.failures))
  /\ [](json_fetch.state = "returned"
          => \/ /\ Len(json_fetch.failures) = 3
                /\ json_fetch.requests = 3
                /\ json_fetch.sleeps = <<2, 4>>
                /\ json_fetch.ret = <<>>
             \/ /\ Len(json_fetch.failures) < 3
                /\ json_fetch.requests = Len(json_fetch.failures) + 1
                /\ Len(json_fetch.sleeps) = Len(json_fetch.failures)
                /\ json_fetch.ret = json_fetch.served)
  /\ [][json_fetch.state = "returned" => json_fetch' = json_fetch]_vars

\* the call gave up after a timeout, an HTTP error and a malformed body
C36_Witness ==
  /\ json_fetch.state = "returned"
  /\ json_fetch.failures = <<"timeout", "http_error", "bad_json">>
  /\ json_fetch.sleeps = <<2, 4>>
  /\ json_fetch.ret = <<>>

\* C32: a transient I/O error at publish is retried: a publish call that
\* fails on its send has made more than one send request before it gives up.
C32_TransientErrorRetried ==
  (call.outcome = "Failed" /\ call.sends >= 1 /\ ~call.send_ok) => call.sends > 1

\* C33: persisting the ledger is atomic: whatever happens during a persist,
\* the history file afterwards holds the complete previous document or the
\* complete new one.
C33_PersistAtomic ==
  [][(pc = "record" /\ pc' = "idle" /\ history_file.kind = "json"
        /\ history_file.posted # <<>>)
       => (history_file' = history_file \/ history_file' = JsonDump(posted_history'))]_vars

C35_ReadinessGate ==
  /\ [](startup.entry = "start_bot_and_pipeline"
          => /\ startup.polls <= 30
             /\ phase \in {"off", "fetching"}
             /\ phase = "fetching" <=> startup.stage = "cycling"
             /\ startup.stage = "cycling" => (startup.polls >= 1 /\ startup.ready)
             /\ startup.stage = "gave_up" => ~startup.ready
             /\ startup.stage = "gave_up" <=> (startup.polls = 30 /\ phase = "off"))
  /\ [][(startup.entry = "start_bot_and_pipeline" /\ startup.stage \in {"gave_up", "refused"})
          => (startup' = startup /\ phase' = phase)]_vars
  /\ [][(startup.entry = "start_bot_and_pipeline" /\ phase' # phase)
          => /\ startup.stage = "connecting"
             /\ startup'.stage = "cycling"
             /\ startup'.polls = startup.polls + 1]_vars

\* the bot was seen ready by the last of the 30 polls and the first cycle begins
C35_Witness ==
  /\ startup.entry = "start_bot_and_pipeline"
  /\ startup.stage = "cycling"
  /\ startup.polls = 30
  /\ phase = "fetching"

\* C39: run_once runs at most one cycle; once the bot has connected it
\* always closes the bot and then cleans the download folders, whether the
\* cycle returned or raised; when the bot never connects, no cycle and no
\* cleanup happen.
C39_RunOnceAlwaysCleans ==
  startup.entry = "run_once"
    => /\ startup.cycles <= 1
       /\ startup.cleanups <= startup.closes
       /\ startup.stage = "gave_up"
            => (startup.cycles = 0 /\ startup.closes = 0 /\ startup.cleanups = 0)
       /\ startup.stage \in {"done", "close_raised"}
            => (startup.cycles = 1 /\ startup.closes = 1 /\ startup.cleanups = 1)

\* ============================================================= the scraper
\* src/imgur_scraper.py: ImgurMemeScraper.scrape_subreddit, lines 106-156,
\* called again and again on the one scraper object of the pipeline
\* (master_pipeline.py, line 32).

\* the posts of one listing
MaxListing == 2

\* what fetch_imgur_posts can return: posts in any order, a post possibly
\* twice (the two gallery URLs overlap), each download succeeding or not
RECURSIVE ListingsUpTo(_)
ListingsUpTo(n) ==
  IF n = 0 THEN {<<>>}
  ELSE LET shorter == ListingsUpTo(n - 1)
       IN shorter \cup {Append(l, [post |-> p, image |-> im, download_ok |-> ok]) :
                          l \in shorter, p \in PostIds, im \in FetchImages, ok \in BOOLEAN}
Listings == ListingsUpTo(MaxListing)

\* the listed posts for which download_image is called and returns None
FailedIn(listing, downloaded) ==
  {listing[i].post : i \in {j \in 1..Len(listing) :
      /\ ~listing[j].download_ok
      /\ listing[j].post \notin downloaded
      /\ \A k \in 1..(j - 1) : listing[k].post = listing[j].post => ~listing[k].download_ok}}

\* the scraper has been constructed: downloaded_ids = set()
InitScrape ==
  /\ PublisherIdle
  /\ scoring = NoScoring
  /\ ai_config = DefaultAiConfig
  /\ phase = "fetching"
  /\ all_content = <<>>
  /\ results = <<>>
  /\ scored_content = <<>>
  /\ selected = <<>>
  /\ idx = 0
  /\ posted = 0
  /\ since_wait = 0
  /\ attempted = <<>>
  /\ fetched = <<>>
  /\ downloaded_ids = {}
  /\ startup = NoStartup
  /\ json_fetch = NoJsonFetch

\* one scrape_subreddit call; the caller appends what it returns (lines 80-86)
ScrapeCall(listing) ==
  LET r == scrape_subreddit(listing, downloaded_ids)
  IN /\ Len(fetched) < MaxCalls
     /\ fetched' = Append(fetched, [raised |-> FALSE, memes |-> r.memes,
                                    failed |-> FailedIn(listing, downloaded_ids)])
     /\ downloaded_ids' = r.downloaded_ids
     /\ all_content' = all_content \o r.memes
     /\ UNCHANGED <<config, history_file, posted_history, pc, call, pre, fresh, calls,
                    delivered, durable, scoring, ai_config, phase, results,
                    scored_content, selected, idx, posted, since_wait, attempted,
                    startup, json_fetch>>

NextScrape == \E listing \in Listings : ScrapeCall(listing)

SpecScrape == InitScrape /\ [][NextScrape]_vars

\* C37: across the scrape_subreddit calls of one scraper no post id is
\* returned twice; downloaded_ids holds exactly the ids that were downloaded
\* and returned, so a post whose download failed is not in it and stays
\* eligible; the concatenated items have distinct post ids.
C37_NoPostReturnedTwice ==
  /\ \A i, j \in 1..Len(all_content) : all_content[i].post = all_content[j].post => i = j
  /\ all_content = ConcatMemes(fetched)
  /\ downloaded_ids = PostsOf(all_content)
  /\ \A k \in 1..Len(fetched) : \A p \in fetched[k].failed :
       p \in downloaded_ids
         => \E m \in k..Len(fetched) : p \in PostsOf(fetched[m].memes)

\* the download of post 1 failed in the first call; the second call, which
\* lists it twice, returns it once; the third call lists it and returns nothing
C37_Witness ==
  /\ Len(fetched) = 3
  /\ fetched[1].failed = {1} /\ fetched[1].memes = <<>>
  /\ PostsOf(fetched[2].memes) = {1} /\ Len(fetched[2].memes) = 1
  /\ fetched[3].memes = <<>> /\ fetched[3].failed = {}
  /\ downloaded_ids = {1}

\* ============================================== file names and content ids
\* src/imgur_scraper.py, line 137: filename = f"imgur_{post_id}{ext}";
\* src/reddit_meme_scraper_no_api.py, lines 360-375:
\* filename = f"{subreddit_name}_{post_id}_{timestamp}{extension}" with
\* timestamp = datetime.now() to the second.  The extension is taken from the
\* post's image URL, and with it is a function of the post.

Scrapers == {"imgur_scraper", "reddit_meme_scraper_no_api"}

\* the base name a scraper gives to the download of a post at a given time
\* (stamp 0: the name holds no time)
Filename(scraper, post, now) ==
  [scraper |-> scraper, post |-> post,
   stamp |-> IF scraper = "reddit_meme_scraper_no_api" THEN now ELSE 0]

\* no download has been made
InitNames ==
  /\ PublisherIdle
  /\ scoring = NoScoring
  /\ ai_config = DefaultAiConfig
  /\ phase = "off"
  /\ all_content = <<>>
  /\ results = <<>>
  /\ scored_content = <<>>
  /\ selected = <<>>
  /\ idx = 0
  /\ posted = 0
  /\ since_wait = 0
  /\ attempted = <<>>
  /\ fetched = <<>>
  /\ downloaded_ids = {}
  /\ startup = NoStartup
  /\ json_fetch = NoJsonFetch

\* a scraper downloads a post into a folder, in the cycle of the previous
\* download or in the next one (cycles are hours apart: the clock has moved
\* on), and the publisher derives the content id of the file
Download(scraper, post, dir, nextCycle) ==
  LET last == IF fetched = <<>> THEN 0 ELSE fetched[Len(fetched)].cycle
      cycle == IF nextCycle \/ last = 0 THEN last + 1 ELSE last
      path == [dir |-> dir, name |-> Filename(scraper, post, cycle)]
  IN /\ Len(fetched) < MaxCalls
     /\ fetched' = Append(fetched, [scraper |-> scraper, post |-> post, cycle |-> cycle,
                                    path |-> path,
                                    content_id |-> _generate_content_id(path)])
     /\ UNCHANGED <<config, history_file, posted_history, pc, call, pre, fresh, calls,
                    delivered, durable, scoring, ai_config, phase, all_content, results,
                    scored_content, selected, idx, posted, since_wait, attempted,
                    downloaded_ids, startup, json_fetch>>

NextNames ==
  \E scraper \in Scrapers, post \in PostIds, dir \in 1..MaxDirs, nextCycle \in BOOLEAN :
    Download(scraper, post, dir, nextCycle)

SpecNames == InitNames /\ [][NextNames]_vars

\* C38: the content id depends on the base name of the file only: two paths
\* with the same base name get the same content id whatever their directory,
\* and the same source post fetched in two different cycles gets the same
\* content id.
C38_ContentIdStable ==
  \A i, j \in 1..Len(fetched) :
    /\ fetched[i].path.name = fetched[j].path.name
         => fetched[i].content_id = fetched[j].content_id
    /\ (fetched[i].scraper = fetched[j].scraper /\ fetched[i].post = fetched[j].post)
         => fetched[i].content_id = fetched[j].content_id

====
